---- MODULE Spec2Model ----
(***************************************************************************)
(* Model of pyon's messaging substrate.                                    *)
(*                                                                         *)
(*  - NodeB (src/pyon/net/messaging.py): the blocking node, its pool of    *)
(*    bidirectional channels, the reentrant pool lock and make_node.       *)
(*    Fibers are gevent greenlets: a fiber runs until it blocks, so an     *)
(*    action below is the code between two blocking points (waiting for    *)
(*    the lock, blocking_cb on the transport open, stop_consume).          *)
(*  - EventRepository.find_events (src/pyon/event/event.py): the query     *)
(*    router, a pure function of its arguments.                            *)
(*  - EventPublisher and EventSubscriber (src/pyon/event/event.py): the    *)
(*    topic a publisher sends to, the binding and the queue name of a      *)
(*    subscriber, and the publish-then-persist sequence of publish_event.  *)
(*  - NodeNB (src/pyon/net/messaging.py): the non-blocking node and its    *)
(*    registry of channels.                                                *)
(*  - CouchDB_DataStore.resolve_association_doc                             *)
(*    (src/pyon/datastore/couchdb/couchdb_datastore.py): the association    *)
(*    query, a function of its arguments and of the documents stored.       *)
(***************************************************************************)
EXTENDS Integers, Sequences, FiniteSets, TLC

\* ------------------------------------------------------------------ bounds
NumFibers == 2      \* concurrent callers of the node
MaxChans  == 3      \* invocations of new_channel
MaxEvents == 2      \* calls of EventPublisher.publish_event
MaxNBChans == 3     \* calls of NodeNB.channel

Fibers == 1..NumFibers
NoFiber == 0

\* ----------------------------------------------------------------- helpers
Range(m) == {m[x] : x \in DOMAIN m}
MapPut(m, k, v) == [x \in DOMAIN m \cup {k} |-> IF x = k THEN v ELSE m[x]]
MapDel(m, k) == [x \in DOMAIN m \ {k} |-> m[x]]
EmptyMap == [x \in {} |-> 0]
MinOf(S) == CHOOSE x \in S : \A y \in S : x <= y
MaxOf(S) == CHOOSE x \in S : \A y \in S : y <= x

VARIABLES
  mk,          \* make_node: "new" (NodeB() built), "waiting" (ready.wait()), "returned"
  ready,       \* NodeB.ready (gevent Event)
  running,     \* NodeB.running
  lockOwner,   \* NodeB._lock (RLock): owning fiber, NoFiber when free
  lockDepth,   \* NodeB._lock: recursion count
  ids_free,    \* IDPool._ids_free
  ids_in_use,  \* IDPool: identifiers currently allocated
  last_id,     \* IDPool: last identifier minted
  bidir_pool,  \* NodeB._bidir_pool: pool identifier -> channel object
  pool_map,    \* NodeB._pool_map: transport channel number -> pool identifier
  chans,       \* the channel objects created so far (index = object identity)
  ncreate,     \* invocations of new_channel so far
  pc,          \* per fiber: where it is
  loc,         \* per fiber: its local variables
  last,        \* the call that ended most recently: its outcome, the pool identifier
  peak,        \* the largest number of pooled channels that were active at once
  fq,          \* EventRepository.find_events: its arguments, the datastore calls made
  pub,         \* an EventPublisher: its fields and where publish_event is
  sub,         \* an EventSubscriber: its arguments and what __init__ computed
  sent,        \* the messages published to the exchange, in order
  repo,        \* the events put into the event repository, in order
  nb_running,  \* NodeNB.running
  nb_channels, \* NodeNB.channels: identifier -> state of the channel
  nb_last_id,  \* NodeNB.id_pool: last identifier minted
  nb_requests,  \* the identifiers start_channel was called for, in order
  ds,          \* the documents of the data store, by identifier
  assoc        \* the association query made and its outcome

nodeVars == <<mk, ready, running, lockOwner, lockDepth, ids_free, ids_in_use,
              last_id, bidir_pool, pool_map, chans, ncreate, pc, loc, last, peak>>

findVars == <<fq>>
eventVars == <<pub, sub, sent, repo>>
nbVars == <<nb_running, nb_channels, nb_last_id, nb_requests>>
assocVars == <<ds, assoc>>
\* What the operations of one component leave alone.
outsideNode == <<findVars, eventVars, nbVars, assocVars>>
outsideFind == <<nodeVars, eventVars, nbVars, assocVars>>
outsideEvent == <<nodeVars, findVars, nbVars, assocVars>>
outsideNB == <<nodeVars, findVars, eventVars, assocVars>>
outsideAssoc == <<nodeVars, findVars, eventVars, nbVars>>

\* ------------------------------------------------------------- channel types
\* ch_type as NodeB.channel sees it: the class and its _queue_auto_delete.
ChTypes == {[cls |-> "BidirClientChannel", qad |-> FALSE],
            [cls |-> "BidirClientChannel", qad |-> TRUE],
            [cls |-> "BaseChannel", qad |-> FALSE]}
NoType == [cls |-> "none", qad |-> FALSE]

PoolableAnyBidir(t) == t.cls = "BidirClientChannel"
\* messaging.py:65
Poolable(t) == t.cls = "BidirClientChannel" /\ ~t.qad

\* A channel object. bidir: it was created for ch_type BidirClientChannel with
\* auto-delete off; num: its transport channel number (0: none yet); qad: the
\* instance's _queue_auto_delete; closed: close_impl has run on it; held: how
\* many callers hold it (handed out and not yet closed by them).
NewChan(t) == [bidir |-> (t.cls = "BidirClientChannel" /\ t.qad = FALSE),
               num |-> 0, qad |-> t.qad, closed |-> FALSE, held |-> 0]

Chans == 1..Len(chans)
\* BaseChannel.get_channel_id() in self._pool_map (messaging.py:86)
Tracked(c) == chans[c].num \in DOMAIN pool_map
HandedOut(c) == chans[c].num > 0
\* The transport gives a new channel a number no channel has had.
NextNum == 1 + MaxOf({0} \cup {chans[c].num : c \in Chans})

NoLoc == [t |-> NoType, chid |-> 0, ch |-> 0, nested |-> FALSE]

\* -------------------------------------------------------------------- IDPool
get_id_largest(free, lst) == IF free # {} THEN MaxOf(free) ELSE lst + 1
\* pyon.util.pool.IDPool is not among the sources; modelled from the
\* specification (section 4.1): the smallest released identifier, else a new one.
get_id(free, lst) == IF free # {} THEN MinOf(free) ELSE lst + 1

\* The pool after get_id returned chid.
AfterGetId(chid) ==
  /\ ids_free' = ids_free \ {chid}
  /\ ids_in_use' = ids_in_use \cup {chid}
  /\ last_id' = IF chid > last_id THEN chid ELSE last_id

IdsUnchanged == UNCHANGED <<ids_free, ids_in_use, last_id>>

\* ------------------------------------------------------------------ the lock
LockFree == lockDepth = 0
rlock_not_reentrant(f, owner, depth) == depth = 0
\* coros.RLock (messaging.py:32): free, or already owned by the caller.
rlock_available(f, owner, depth) == depth = 0 \/ owner = f
CanLock(f) == rlock_available(f, lockOwner, lockDepth)
LockTaken(f) == lockOwner' = f /\ lockDepth' = lockDepth + 1
\* __exit__ of "with self._lock"
LockReleased(f) ==
  /\ lockDepth' = lockDepth - 1
  /\ lockOwner' = IF lockDepth - 1 = 0 THEN NoFiber ELSE lockOwner
\* An exception leaves every "with self._lock" the fiber is in.
LockDropped(f) == lockOwner' = NoFiber /\ lockDepth' = 0

\* ---------------------------------------------------------------- make_node
InitNode ==
  /\ mk = "new"
  /\ ready = FALSE
  /\ running = 0
  /\ lockOwner = NoFiber
  /\ lockDepth = 0
  /\ ids_free = {}
  /\ ids_in_use = {}
  /\ last_id = 0
  /\ bidir_pool = EmptyMap
  /\ pool_map = EmptyMap
  /\ chans = <<>>
  /\ ncreate = 0
  /\ pc = [f \in Fibers |-> "idle"]
  /\ loc = [f \in Fibers |-> NoLoc]
  /\ last = [res |-> "none", id |-> 0]
  /\ peak = 0

\* No query is being made.
NoQuery == [pc |-> "none", args |-> <<>>, calls |-> <<>>]

\* No publisher and no subscriber have been constructed.
NoPublisher == [pc |-> "none"]
NoSubscriber == [pc |-> "none"]
NoEvents == pub = NoPublisher /\ sub = NoSubscriber /\ sent = <<>> /\ repo = <<>>

\* NodeNB.__init__ (messaging.py:196-199); running is 0 until start_node.
InitNB ==
  /\ nb_running = 0
  /\ nb_channels = EmptyMap
  /\ nb_last_id = 0
  /\ nb_requests = <<>>

\* No association query has been made; the data store holds no document.
NoCall == [pc |-> "none", fn |-> "", args |-> <<>>, out |-> <<>>]
NoAssoc == ds = EmptyMap /\ assoc = NoCall

Init == InitNode /\ fq = NoQuery /\ NoEvents /\ InitNB /\ NoAssoc

\* The pooled channels that are active are the entries of _pool_map
\* (messaging.py:71, 76, 89); peak follows their number.
PeakStep == peak' = MaxOf({peak, Cardinality(DOMAIN pool_map')})

\* make_node: the connection is created, the ioloop spawned, node.ready.wait().
MakeNodeSpawn ==
  /\ UNCHANGED outsideNode
  /\ mk = "new"
  /\ mk' = "waiting"
  /\ UNCHANGED <<ready, running, lockOwner, lockDepth, ids_free, ids_in_use,
                 last_id, bidir_pool, pool_map, chans, ncreate, pc, loc, last>>
  /\ PeakStep

\* The ioloop fiber: on_connection_open calls start_node.
start_node ==
  /\ UNCHANGED outsideNode
  /\ mk # "new"
  /\ ~ready
  /\ running' = 1
  /\ ready' = TRUE
  /\ UNCHANGED <<mk, lockOwner, lockDepth, ids_free, ids_in_use,
                 last_id, bidir_pool, pool_map, chans, ncreate, pc, loc, last>>
  /\ PeakStep

ReadyWaitSkipped == TRUE
\* node.ready.wait() (messaging.py:138) returns once the event is set.
ReadyWaitOver == ready

\* make_node returns the node to its caller.
MakeNodeReturn ==
  /\ UNCHANGED outsideNode
  /\ mk = "waiting"
  /\ ReadyWaitOver
  /\ mk' = "returned"
  /\ UNCHANGED <<ready, running, lockOwner, lockDepth, ids_free, ids_in_use,
                 last_id, bidir_pool, pool_map, chans, ncreate, pc, loc, last>>
  /\ PeakStep

\* ------------------------------------------------------------ NodeB.channel
\* The call has returned or raised: the fiber is back in its caller.
Done(f, res, chid) ==
  /\ pc' = [pc EXCEPT ![f] = "idle"]
  /\ loc' = [loc EXCEPT ![f] = NoLoc]
  /\ last' = [res |-> res, id |-> chid]

in_bidir_pool_never(chid) == FALSE
\* messaging.py:67
in_bidir_pool(chid) == chid \in DOMAIN bidir_pool

\* A fiber that has entered channel() and may still have to create a channel.
Pending(g) ==
  \/ pc[g] = "chan_lock"
  \/ pc[g] = "chan_create"
  \/ pc[g] \in {"rel_stop", "rel_lock"} /\ loc[g].nested

\* The bound on new_channel, reserved when the call is made: a call is taken
\* up when an invocation is left for it, or when it is certain to reuse.
CanCall(t) ==
  \/ ncreate + Cardinality({g \in Fibers : Pending(g)}) < MaxChans
  \/ /\ LockFree /\ Poolable(t) /\ ids_free # {}
     /\ in_bidir_pool(get_id(ids_free, last_id))

\* messaging.py:58, channel_create_callback(...): it raises, or returns the
\* new channel object, after which blocking_cb (line 59) waits for the transport.
create_cb(f, t, chid) ==
  \/ /\ ncreate' = ncreate + 1
     /\ chans' = chans
     /\ LockDropped(f)
     /\ Done(f, "create_error", 0)
  \/ /\ ncreate' = ncreate + 1
     /\ chans' = Append(chans, NewChan(t))
     /\ lockOwner' = f
     /\ lockDepth' = 1
     /\ pc' = [pc EXCEPT ![f] = "chan_open"]
     /\ loc' = [loc EXCEPT ![f] = [NoLoc EXCEPT !.t = t, !.chid = chid,
                                                 !.ch = Len(chans) + 1]]
     /\ last' = last

\* The create callback closes a tracked channel its fiber holds before it
\* builds the new one: on_channel_request_close runs inside channel(), with
\* the lock already held by the same fiber (lines 86-88).
create_cb_closes(f, t, chid) ==
  \E c \in Chans :
    /\ chans[c].held > 0
    /\ Tracked(c)
    /\ chans' = [chans EXCEPT ![c].held = @ - 1]
    /\ IF rlock_available(f, f, 1)
       THEN /\ lockOwner' = f
            /\ lockDepth' = 2
            /\ pc' = [pc EXCEPT ![f] = "rel_stop"]
       ELSE /\ lockOwner' = f
            /\ lockDepth' = 1
            /\ pc' = [pc EXCEPT ![f] = "rel_lock"]
    /\ loc' = [loc EXCEPT ![f] = [NoLoc EXCEPT !.t = t, !.chid = chid, !.ch = c,
                                                !.nested = TRUE]]
    /\ UNCHANGED <<ncreate, last>>

\* messaging.py:57-62 up to the first blocking point
new_channel(f, t, chid) ==
  \/ create_cb(f, t, chid)
  \/ create_cb_closes(f, t, chid)

\* channel() that takes any cached channel, in use or not.
ChannelBodyAnyCached(f, t) ==
  IF Poolable(t) /\ DOMAIN bidir_pool # {}
  THEN LET chid == MinOf(DOMAIN bidir_pool)
           ch == bidir_pool[chid]
       IN /\ pool_map' = MapPut(pool_map, chans[ch].num, chid)
          /\ chans' = [chans EXCEPT ![ch].held = @ + 1]
          /\ Done(f, "reused", chid)
          /\ IdsUnchanged
          /\ UNCHANGED <<lockOwner, lockDepth, bidir_pool, ncreate>>
  ELSE IF Poolable(t)
  THEN LET chid == get_id(ids_free, last_id) IN
       /\ AfterGetId(chid)
       /\ new_channel(f, t, chid)
       /\ UNCHANGED <<bidir_pool, pool_map>>
  ELSE /\ new_channel(f, t, 0)
       /\ IdsUnchanged
       /\ UNCHANGED <<bidir_pool, pool_map>>

\* messaging.py:56-81 from the moment the lock is obtained (it is free here).
ChannelBody(f, t) ==
  IF Poolable(t)
  THEN LET chid == get_id(ids_free, last_id) IN
       /\ AfterGetId(chid)
       /\ IF in_bidir_pool(chid)
          THEN IF chid \in Range(pool_map)
               THEN \* the assert of line 69 fails
                    /\ Done(f, "assert_error", 0)
                    /\ UNCHANGED <<lockOwner, lockDepth, bidir_pool, pool_map,
                                   chans, ncreate>>
               ELSE LET ch == bidir_pool[chid] IN
                    /\ pool_map' = MapPut(pool_map, chans[ch].num, chid)
                    /\ chans' = [chans EXCEPT ![ch].held = @ + 1]
                    /\ Done(f, "reused", chid)
                    /\ UNCHANGED <<lockOwner, lockDepth, bidir_pool, ncreate>>
          ELSE /\ new_channel(f, t, chid)
               /\ UNCHANGED <<bidir_pool, pool_map>>
  ELSE /\ new_channel(f, t, 0)
       /\ IdsUnchanged
       /\ UNCHANGED <<bidir_pool, pool_map>>

\* A caller that got the node from make_node calls node.channel(ch_type, cb).
ChannelCall(f, t) ==
  /\ UNCHANGED outsideNode
  /\ mk = "returned"
  /\ pc[f] = "idle"
  /\ CanCall(t)
  /\ IF LockFree
     THEN ChannelBody(f, t)
     ELSE /\ pc' = [pc EXCEPT ![f] = "chan_lock"]
          /\ loc' = [loc EXCEPT ![f] = [NoLoc EXCEPT !.t = t]]
          /\ UNCHANGED <<lockOwner, lockDepth, ids_free, ids_in_use, last_id,
                         bidir_pool, pool_map, chans, ncreate, last>>
  /\ UNCHANGED <<mk, ready, running>>
  /\ PeakStep

\* "with self._lock" (line 56) after waiting for another fiber to release it.
ChannelLockGranted(f) ==
  /\ UNCHANGED outsideNode
  /\ pc[f] = "chan_lock"
  /\ LockFree
  /\ ChannelBody(f, loc[f].t)
  /\ UNCHANGED <<mk, ready, running>>
  /\ PeakStep

\* new_channel goes on after a close made by the create callback returned.
ChannelCreateResume(f) ==
  /\ UNCHANGED outsideNode
  /\ pc[f] = "chan_create"
  /\ create_cb(f, loc[f].t, loc[f].chid)
  /\ UNCHANGED <<mk, ready, running, ids_free, ids_in_use, last_id,
                 bidir_pool, pool_map>>
  /\ PeakStep

\* The open without line 75: the new channel is not put in _bidir_pool.
TransportOpenOkNoStore(f) ==
  /\ UNCHANGED outsideNode
  /\ pc[f] = "chan_open"
  /\ LET ch == loc[f].ch
         chid == loc[f].chid
         num == NextNum
     IN /\ chans' = [chans EXCEPT ![ch].num = num, ![ch].held = 1]
        /\ IF Poolable(loc[f].t)
           THEN /\ bidir_pool' = bidir_pool
                /\ pool_map' = MapPut(pool_map, num, chid)
           ELSE UNCHANGED <<bidir_pool, pool_map>>
        /\ LockReleased(f)
        /\ Done(f, "created", chid)
  /\ UNCHANGED <<mk, ready, running, ids_free, ids_in_use, last_id, ncreate>>
  /\ PeakStep

\* messaging.py:59-62 and 75-76: the transport answers the open; the channel is
\* given its transport channel, stored (when poolable) and returned.
TransportOpenOk(f) ==
  /\ UNCHANGED outsideNode
  /\ pc[f] = "chan_open"
  /\ LET ch == loc[f].ch
         chid == loc[f].chid
         num == NextNum
     IN /\ chans' = [chans EXCEPT ![ch].num = num, ![ch].held = 1]
        /\ IF Poolable(loc[f].t)
           THEN /\ bidir_pool' = MapPut(bidir_pool, chid, ch)
                /\ pool_map' = MapPut(pool_map, num, chid)
           ELSE UNCHANGED <<bidir_pool, pool_map>>
        /\ LockReleased(f)
        /\ Done(f, "created", chid)
  /\ UNCHANGED <<mk, ready, running, ids_free, ids_in_use, last_id, ncreate>>
  /\ PeakStep

\* blocking_cb raises (the open fails): the "with" releases the lock and the
\* exception leaves channel(); nothing refers to the channel object, the last
\* one built (new_channel runs under the lock).
TransportOpenFail(f) ==
  /\ UNCHANGED outsideNode
  /\ pc[f] = "chan_open"
  /\ chans' = SubSeq(chans, 1, Len(chans) - 1)
  /\ LockReleased(f)
  /\ Done(f, "open_error", 0)
  /\ UNCHANGED <<mk, ready, running, ids_free, ids_in_use, last_id,
                 bidir_pool, pool_map, ncreate>>
  /\ PeakStep

\* ------------------------------------------- NodeB.on_channel_request_close
auto_delete_ignored(c) == FALSE
auto_delete_assumed(c) == TRUE
\* messaging.py:94
auto_delete_on(c) == chans[c].qad

\* The release without line 91: the identifier is not given back to the pool.
CloseBodyNoRelease(f) ==
  LET c == loc[f].ch
      n == chans[c].num
      raised == IF loc[f].nested THEN "create_error" ELSE "release_error"
  IN IF n \notin DOMAIN pool_map
     THEN /\ LockDropped(f)
          /\ Done(f, raised, 0)
          /\ UNCHANGED <<ids_free, ids_in_use, last_id, bidir_pool, pool_map>>
     ELSE LET chid == pool_map[n] IN
          /\ pool_map' = MapDel(pool_map, n)
          /\ UNCHANGED <<ids_free, ids_in_use, last_id>>
          /\ IF auto_delete_on(c)
             THEN bidir_pool' = MapDel(bidir_pool, chid)
             ELSE bidir_pool' = bidir_pool
          /\ LockReleased(f)
          /\ IF loc[f].nested
             THEN /\ pc' = [pc EXCEPT ![f] = "chan_create"]
                  /\ loc' = [loc EXCEPT ![f] =
                         [NoLoc EXCEPT !.t = loc[f].t, !.chid = loc[f].chid]]
                  /\ last' = last
             ELSE Done(f, IF auto_delete_on(c) THEN "evicted" ELSE "released",
                       chid)

\* messaging.py:89-98, the body of the "with" after stop_consume has returned.
\* pop raises KeyError when the number is no longer in _pool_map; release_id
\* fails fast on an identifier that is not allocated. An exception raised in
\* a close made by the create callback leaves channel() as well.
CloseBody(f) ==
  LET c == loc[f].ch
      n == chans[c].num
      raised == IF loc[f].nested THEN "create_error" ELSE "release_error"
  IN IF n \notin DOMAIN pool_map
     THEN /\ LockDropped(f)
          /\ Done(f, raised, 0)
          /\ UNCHANGED <<ids_free, ids_in_use, last_id, bidir_pool, pool_map>>
     ELSE LET chid == pool_map[n] IN
          /\ pool_map' = MapDel(pool_map, n)
          /\ IF chid \notin ids_in_use
             THEN /\ LockDropped(f)
                  /\ Done(f, raised, 0)
                  /\ UNCHANGED <<ids_free, ids_in_use, last_id, bidir_pool>>
             ELSE /\ ids_in_use' = ids_in_use \ {chid}
                  /\ last_id' = last_id
                  /\ IF auto_delete_on(c)
                     THEN \* lines 94-98: evicted, the identifier withdrawn
                          /\ bidir_pool' = MapDel(bidir_pool, chid)
                          /\ ids_free' = (ids_free \cup {chid}) \ {chid}
                     ELSE /\ ids_free' = ids_free \cup {chid}
                          /\ bidir_pool' = bidir_pool
                  /\ LockReleased(f)
                  /\ IF loc[f].nested
                     THEN /\ pc' = [pc EXCEPT ![f] = "chan_create"]
                          /\ loc' = [loc EXCEPT ![f] =
                                 [NoLoc EXCEPT !.t = loc[f].t, !.chid = loc[f].chid]]
                          /\ last' = last
                     ELSE Done(f, IF auto_delete_on(c) THEN "evicted" ELSE "released",
                               chid)

\* messaging.py:83-88 and 100-101: the test of line 86 is made without the
\* lock; a tracked channel then needs the lock, an untracked one is closed.
on_channel_request_close(f, c, held) ==
  IF Tracked(c)
  THEN /\ chans' = [chans EXCEPT ![c].held = held]
       /\ loc' = [loc EXCEPT ![f] = [NoLoc EXCEPT !.ch = c]]
       /\ IF CanLock(f)
          THEN /\ LockTaken(f)
               /\ pc' = [pc EXCEPT ![f] = "rel_stop"]
          ELSE /\ pc' = [pc EXCEPT ![f] = "rel_lock"]
               /\ UNCHANGED <<lockOwner, lockDepth>>
       /\ last' = last
  ELSE /\ chans' = [chans EXCEPT ![c].held = held, ![c].closed = TRUE]
       /\ Done(f, "closed", 0)
       /\ UNCHANGED <<lockOwner, lockDepth>>

\* The holder of a channel closes it: the channel's close path calls the
\* close callback the node gave it (line 58).
CloseHeld(f, c) ==
  /\ UNCHANGED outsideNode
  /\ pc[f] = "idle"
  /\ chans[c].held > 0
  /\ on_channel_request_close(f, c, chans[c].held - 1)
  /\ UNCHANGED <<mk, ready, running, ids_free, ids_in_use, last_id,
                 bidir_pool, pool_map, ncreate>>
  /\ PeakStep

\* A caller closes once more a channel it has already closed and that no one
\* has been handed since.
CloseAgain(f, c) ==
  /\ UNCHANGED outsideNode
  /\ pc[f] = "idle"
  /\ HandedOut(c)
  /\ chans[c].held = 0
  /\ on_channel_request_close(f, c, 0)
  /\ UNCHANGED <<mk, ready, running, ids_free, ids_in_use, last_id,
                 bidir_pool, pool_map, ncreate>>
  /\ PeakStep

\* "with self._lock" (line 87) after waiting; stop_consume (line 88) is called.
CloseLockGranted(f) ==
  /\ UNCHANGED outsideNode
  /\ pc[f] = "rel_lock"
  /\ CanLock(f)
  /\ LockTaken(f)
  /\ pc' = [pc EXCEPT ![f] = "rel_stop"]
  /\ UNCHANGED <<mk, ready, running, ids_free, ids_in_use, last_id,
                 bidir_pool, pool_map, chans, ncreate, loc, last>>
  /\ PeakStep

\* stop_consume has returned: lines 89-98 run to the end of the "with".
StopConsumeDone(f) ==
  /\ UNCHANGED outsideNode
  /\ pc[f] = "rel_stop"
  /\ CloseBody(f)
  /\ UNCHANGED <<mk, ready, running, chans, ncreate>>
  /\ PeakStep

\* The holder of a pooled channel sets _queue_auto_delete on it.
SetAutoDelete(c) ==
  /\ UNCHANGED outsideNode
  /\ chans[c].held > 0
  /\ Tracked(c)
  /\ ~chans[c].qad
  /\ chans' = [chans EXCEPT ![c].qad = TRUE]
  /\ UNCHANGED <<mk, ready, running, lockOwner, lockDepth, ids_free, ids_in_use,
                 last_id, bidir_pool, pool_map, ncreate, pc, loc, last>>
  /\ PeakStep

vars == <<nodeVars, findVars, eventVars, nbVars, assocVars>>

Next ==
  \/ MakeNodeSpawn
  \/ start_node
  \/ MakeNodeReturn
  \/ \E f \in Fibers, t \in ChTypes : ChannelCall(f, t)
  \/ \E f \in Fibers : ChannelLockGranted(f)
  \/ \E f \in Fibers : ChannelCreateResume(f)
  \/ \E f \in Fibers : TransportOpenOk(f)
  \/ \E f \in Fibers : TransportOpenFail(f)
  \/ \E f \in Fibers, c \in Chans : CloseHeld(f, c)
  \/ \E f \in Fibers : CloseLockGranted(f)
  \/ \E f \in Fibers : StopConsumeDone(f)
  \/ \E c \in Chans : SetAutoDelete(c)

Spec == Init /\ [][Next]_vars

\* The transport answers every request, a callback that was entered returns,
\* and the lock is handed to a fiber that keeps waiting for it.
FairSpec ==
  /\ Spec
  /\ \A f \in Fibers :
       /\ WF_vars(TransportOpenOk(f) \/ TransportOpenFail(f))
       /\ WF_vars(StopConsumeDone(f))
       /\ WF_vars(ChannelCreateResume(f))
       /\ SF_vars(ChannelLockGranted(f))
       /\ SF_vars(CloseLockGranted(f))

\* The same callers, some of which close a channel twice.
NextReclose ==
  \/ Next
  \/ \E f \in Fibers, c \in Chans : CloseAgain(f, c)

SpecReclose == Init /\ [][NextReclose]_vars


\* ----------------------------------------------- EventRepository.find_events
\* Python values: None or a string (event types, origins, timestamps), and
\* None or an integer (the values of keyword arguments).
PyNone == [tag |-> "None", s |-> ""]
PyStr(x) == [tag |-> "str", s |-> x]
KwNone == [tag |-> "None", n |-> 0]
KwInt(i) == [tag |-> "int", n |-> i]

\* Python's truth value, as "if origin", "if start_ts" take it: None and the
\* empty string are false.
Truthy(v) == v.tag = "str" /\ v.s # ""

\* kwargs.get(key, default)
kwargs_get(kw, key, default) == IF key \in DOMAIN kw THEN kw[key] ELSE default
\* v < k for an integer k: Python 2 orders None before every number.
py_less(v, k) == IF v.tag = "None" THEN TRUE ELSE v.n < k

\* event.py:185
DefaultLimit == 100

\* event.py:166-183, the view chosen
view_name(event_type, origin, start_ts, end_ts) ==
  IF Truthy(origin) /\ Truthy(event_type) THEN "by_origintype"
  ELSE IF Truthy(origin) THEN "by_origin"
  ELSE IF Truthy(event_type) THEN "by_type"
  ELSE "by_time"

base_key_swapped(event_type, origin) ==
  IF Truthy(origin) /\ Truthy(event_type) THEN <<event_type, origin>>
  ELSE IF Truthy(origin) THEN <<origin>>
  ELSE IF Truthy(event_type) THEN <<event_type>>
  ELSE <<>>
\* event.py:164-181, start_key and end_key before the timestamps are appended
base_key(event_type, origin) ==
  IF Truthy(origin) /\ Truthy(event_type) THEN <<origin, event_type>>
  ELSE IF Truthy(origin) THEN <<origin>>
  ELSE IF Truthy(event_type) THEN <<event_type>>
  ELSE <<>>

\* event.py:188-191
with_ts(key, ts) == IF Truthy(ts) THEN Append(key, ts) ELSE key

kwargs_out_any_branch(event_type, origin, start_ts, end_ts, kw) ==
  IF py_less(kwargs_get(kw, "limit", KwInt(0)), 1)
  THEN MapPut(kw, "limit", KwInt(DefaultLimit))
  ELSE kw
\* event.py:182-186, the keyword arguments passed on
kwargs_out(event_type, origin, start_ts, end_ts, kw) ==
  IF /\ ~Truthy(origin) /\ ~Truthy(event_type)
     /\ ~(Truthy(start_ts) \/ Truthy(end_ts))
     /\ py_less(kwargs_get(kw, "limit", KwInt(0)), 1)
  THEN MapPut(kw, "limit", KwInt(DefaultLimit))
  ELSE kw

\* event.py:193-194, the find_by_view call
find_by_view_call(a) ==
  [design   |-> "event",
   view     |-> view_name(a.event_type, a.origin, a.start_ts, a.end_ts),
   start_key |-> with_ts(base_key(a.event_type, a.origin), a.start_ts),
   end_key  |-> with_ts(base_key(a.event_type, a.origin), a.end_ts),
   id_only  |-> FALSE,
   kwargs   |-> kwargs_out(a.event_type, a.origin, a.start_ts, a.end_ts, a.kwargs)]

\* The arguments find_events is called with.
EventTypes == {PyNone, PyStr(""), PyStr("T")}
Origins == {PyNone, PyStr(""), PyStr("X"), PyStr("Y")}
Timestamps == {PyNone, PyStr(""), PyStr("1"), PyStr("5")}
KwargSets ==
  {EmptyMap,
   [k \in {"limit"} |-> KwNone],
   [k \in {"limit"} |-> KwInt(0)],
   [k \in {"limit"} |-> KwInt(1)],
   [k \in {"limit"} |-> KwInt(5)],
   [k \in {"limit"} |-> KwInt(200)],
   [k \in {"descending"} |-> KwInt(1)],
   [k \in {"limit", "descending"} |-> IF k = "limit" THEN KwInt(5) ELSE KwInt(1)]}
FindArgs == [event_type : EventTypes, origin : Origins, start_ts : Timestamps,
             end_ts : Timestamps, kwargs : KwargSets]

InitFind ==
  /\ InitNode /\ NoEvents /\ InitNB /\ NoAssoc
  /\ fq \in {[pc |-> "call", args |-> a, calls |-> <<>>] : a \in FindArgs}

\* event.py:157-196
find_events ==
  /\ fq.pc = "call"
  /\ fq' = [fq EXCEPT !.pc = "done",
                      !.calls = Append(@, find_by_view_call(fq.args))]
  /\ UNCHANGED outsideFind

NextFind == find_events

SpecFind == InitFind /\ [][NextFind]_vars


\* ------------------------------------------ EventPublisher, EventSubscriber
\* A string that the code only joins with "%s.%s" is kept as the sequence of
\* its dot-separated words: "" is <<"">>, "a.b" is <<"a", "b">>.  Event types
\* and origins are such strings, None, or (origins) integers.
TextNone == [tag |-> "None"]
Text(ws) == [tag |-> "str", w |-> ws]
TextInt(i) == [tag |-> "int", n |-> i]

\* Python's truth value of such a value (event.py:57, 74, 98, 99).
py_true(v) ==
  CASE v.tag = "None" -> FALSE
    [] v.tag = "int" -> v.n # 0
    [] v.tag = "str" -> v.w # <<"">>

\* The decimal digits of the integers used as origins.
IntOrigins == {0, 7}
Digits(i) == IF i = 0 THEN "0" ELSE "7"
\* str(v), as "%s" formats it, in dot-separated words.
py_str(v) ==
  CASE v.tag = "None" -> <<"None">>
    [] v.tag = "int" -> <<Digits(v.n)>>
    [] v.tag = "str" -> v.w
\* "%s.%s" % (a, b)
dot_format(a, b) == py_str(a) \o py_str(b)
\* a or b
py_or(a, b) == IF py_true(a) THEN a ELSE b

EventPublisher_topic_origin_first(event_type, origin) == dot_format(origin, event_type)
\* event.py:58 (the assert of line 57 is in publish_event below)
EventPublisher_topic(event_type, origin) == dot_format(event_type, origin)

EventSubscriber_topic_any_origin(event_type, origin) ==
  dot_format(py_or(event_type, Text(<<"*">>)), Text(<<"#">>))
\* event.py:93-101
EventSubscriber_topic(event_type, origin) ==
  dot_format(py_or(event_type, Text(<<"*">>)), py_or(origin, Text(<<"#">>)))

\* A string that the code tests with startswith is kept as the sequence of its
\* characters.
Chars(cs) == [tag |-> "str", c |-> cs]
startswith(s, prefix) ==
  Len(s) >= Len(prefix) /\ SubSeq(s, 1, Len(prefix)) = prefix
queue_name_always_prefixed(sys_name, queue_name) ==
  IF queue_name.tag # "None"
  THEN Chars(sys_name \o <<".">> \o queue_name.c)
  ELSE queue_name
\* event.py:118-121
prefixed_queue_name(sys_name, queue_name) ==
  IF queue_name.tag # "None"
  THEN IF ~startswith(queue_name.c, sys_name)
       THEN Chars(sys_name \o <<".">> \o queue_name.c)
       ELSE queue_name
  ELSE queue_name

\* The event types whose objects are instances of Event (event.py:148).
EventClasses == {Text(<<"T">>), Text(<<"U">>)}
\* The arguments publishers and subscribers are constructed and called with.
PubEventTypes == {TextNone, Text(<<"">>), Text(<<"T">>), Text(<<"U">>), Text(<<"R">>)}
PubOrigins == {TextNone, Text(<<"">>), Text(<<"X">>), Text(<<"X", "Y">>)}
                 \cup {TextInt(i) : i \in IntOrigins}
SubEventTypes == {TextNone, Text(<<"">>), Text(<<"T">>), Text(<<"U">>)}
SubOrigins == {TextNone, Text(<<"">>), Text(<<"X">>), Text(<<"X", "Y">>)}
SysNames == {<<"s">>, <<"s", "y">>}
NameChars == {"s", "y", "."}
QueueNames == {TextNone} \cup {Chars(cs) : cs \in UNION {[1..n -> NameChars] : n \in 0..3}}

\* EventPublisher.__init__ (event.py:40-45) has run.
NewPublisher(event_type, has_repo) ==
  [pc |-> "idle", event_type |-> event_type, event_repo |-> has_repo,
   nevents |-> 0, key |-> <<>>]
\* The arguments of an EventSubscriber that is about to be constructed.
NewSubscriber(event_type, origin, queue_name, sys_name) ==
  [pc |-> "new", event_type |-> event_type, origin |-> origin,
   queue_name |-> queue_name, sys_name |-> sys_name,
   binding |-> <<>>, queue |-> TextNone]

\* event.py:103-125
EventSubscriber_init ==
  /\ UNCHANGED outsideEvent
  /\ sub.pc = "new"
  /\ sub' = [sub EXCEPT !.pc = "ready",
                        !.binding = EventSubscriber_topic(sub.event_type, sub.origin),
                        !.queue = prefixed_queue_name(sub.sys_name, sub.queue_name)]
  /\ UNCHANGED <<pub, sent, repo>>

\* publish_event is not running.
PubIdle ==
  pub.pc \in {"idle", "done", "assert_error", "publish_error", "close_error",
              "bad_request"}

precondition_skipped(origin) == TRUE
\* event.py:74, assert origin
precondition(origin) == py_true(origin)

\* event.py:86-88, 60-61, 73-79: publish_event up to the call of self.publish.
publish_event(origin) ==
  /\ UNCHANGED outsideEvent
  /\ PubIdle
  /\ pub.nevents < MaxEvents
  /\ IF py_true(pub.event_type) /\ precondition(origin)
     THEN pub' = [pub EXCEPT !.pc = "publishing", !.nevents = @ + 1,
                             !.key = EventPublisher_topic(pub.event_type, origin)]
     ELSE pub' = [pub EXCEPT !.pc = "assert_error", !.nevents = @ + 1]
  /\ UNCHANGED <<sub, sent, repo>>

\* event.py:79: self.publish returns, the message is at the exchange.
PublishDone ==
  /\ UNCHANGED outsideEvent
  /\ pub.pc = "publishing"
  /\ sent' = Append(sent, [id |-> pub.nevents, key |-> pub.key])
  /\ pub' = [pub EXCEPT !.pc = "published"]
  /\ UNCHANGED <<sub, repo>>

\* event.py:79: self.publish raises.
PublishFail ==
  /\ UNCHANGED outsideEvent
  /\ pub.pc = "publishing"
  /\ pub' = [pub EXCEPT !.pc = "publish_error"]
  /\ UNCHANGED <<sub, sent, repo>>

persist_always(has_repo) == TRUE
\* event.py:83
persist_wanted(has_repo) == has_repo

\* event.py:80-84 and 146-150: ep.close(), then put_event when a repository is
\* configured; put_event refuses an object that is not an Event.
CloseAndPersist ==
  /\ UNCHANGED outsideEvent
  /\ pub.pc = "published"
  /\ \/ pub' = [pub EXCEPT !.pc = "close_error"] /\ repo' = repo
     \/ IF persist_wanted(pub.event_repo)
        THEN IF pub.event_type \in EventClasses
             THEN /\ repo' = Append(repo, pub.nevents)
                  /\ pub' = [pub EXCEPT !.pc = "done"]
             ELSE /\ repo' = repo
                  /\ pub' = [pub EXCEPT !.pc = "bad_request"]
        ELSE /\ repo' = repo
             /\ pub' = [pub EXCEPT !.pc = "done"]
  /\ UNCHANGED <<sub, sent>>

\* The process stops while publish_event waits for the publish or is between
\* the publish and the put.
Crash ==
  /\ UNCHANGED outsideEvent
  /\ pub.pc \in {"publishing", "published"}
  /\ pub' = [pub EXCEPT !.pc = "crashed"]
  /\ UNCHANGED <<sub, sent, repo>>

InitEvent ==
  /\ InitNode /\ fq = NoQuery /\ InitNB /\ NoAssoc
  /\ pub \in {NewPublisher(t, r) : t \in PubEventTypes, r \in BOOLEAN}
  /\ sub \in {NewSubscriber(t, o, TextNone, <<"s">>) : t \in SubEventTypes, o \in SubOrigins}
  /\ sent = <<>>
  /\ repo = <<>>

NextEvent ==
  \/ EventSubscriber_init
  \/ \E o \in PubOrigins : publish_event(o)
  \/ PublishDone
  \/ PublishFail
  \/ CloseAndPersist
  \/ Crash

SpecEvent == InitEvent /\ [][NextEvent]_vars

\* Subscribers constructed with every kind of queue name.
InitSub ==
  /\ InitNode /\ fq = NoQuery /\ InitNB /\ NoAssoc
  /\ pub = NoPublisher
  /\ sub \in {NewSubscriber(t, o, q, n) :
                t \in {TextNone, Text(<<"T">>)}, o \in {TextNone, Text(<<"X">>)},
                q \in QueueNames, n \in SysNames}
  /\ sent = <<>>
  /\ repo = <<>>

NextSub == EventSubscriber_init

SpecSub == InitSub /\ [][NextSub]_vars

\* ------------------------------------------------------------------- NodeNB
\* The channel classes NodeNB.channel is called with (messaging.py:247, 255).
NBTypes == {"TestServer", "TestClient"}

\* amqp.Node.start_node is not among the sources; modelled from the
\* specification (section 4.4): the connection is active from then on.
amqp_Node_start_node(r) == 1

nb_never_running(r) == FALSE
\* messaging.py:230, if self.running
nb_is_running(r) == r # 0

\* messaging.py:235-240: a transport channel is requested for the channel.
start_channel(requests, ch_id, caller) ==
  Append(requests, [id |-> ch_id, by |-> caller])

RECURSIVE IdsLargestFirst(_)
IdsLargestFirst(S) ==
  IF S = {} THEN <<>> ELSE <<MaxOf(S)>> \o IdsLargestFirst(S \ {MaxOf(S)})

\* The identifiers of a registry in the order the loop of line 208 takes them:
\* a dict whose keys are the small integers the pool mints is iterated in the
\* order of their hash, which is their value (and, in a Python that keeps
\* insertion order, in the order they were minted, which is the same).
RECURSIVE IdsInOrder(_)
IdsInOrder(S) ==
  IF S = {} THEN <<>> ELSE <<MinOf(S)>> \o IdsInOrder(S \ {MinOf(S)})

RECURSIVE start_all(_, _)
start_all(requests, ids) ==
  IF ids = <<>> THEN requests
  ELSE start_all(start_channel(requests, Head(ids), "start_node"), Tail(ids))

\* messaging.py:201-209
NodeNB_start_node ==
  /\ UNCHANGED outsideNB
  /\ nb_running = 0
  /\ nb_running' = amqp_Node_start_node(nb_running)
  /\ nb_requests' = start_all(nb_requests, IdsInOrder(DOMAIN nb_channels))
  /\ UNCHANGED <<nb_channels, nb_last_id>>

\* messaging.py:216-233
NodeNB_channel(ch_type) ==
  /\ UNCHANGED outsideNB
  /\ nb_last_id < MaxNBChans
  /\ LET ch_id == get_id({}, nb_last_id) IN
       /\ nb_last_id' = ch_id
       /\ nb_channels' = MapPut(nb_channels, ch_id, [kind |-> ch_type, open |-> FALSE])
       /\ nb_requests' = IF nb_is_running(nb_running)
                         THEN start_channel(nb_requests, ch_id, "channel")
                         ELSE nb_requests
  /\ UNCHANGED nb_running

\* messaging.py:240: the transport answers a request, ch.on_channel_open runs.
NB_on_channel_open(i) ==
  /\ UNCHANGED outsideNB
  /\ i \in 1..Len(nb_requests)
  /\ ~nb_channels[nb_requests[i].id].open
  /\ nb_channels' = [nb_channels EXCEPT ![nb_requests[i].id].open = TRUE]
  /\ UNCHANGED <<nb_running, nb_last_id, nb_requests>>

InitNodeNB == InitNode /\ fq = NoQuery /\ NoEvents /\ InitNB /\ NoAssoc

NextNB ==
  \/ NodeNB_start_node
  \/ \E t \in NBTypes : NodeNB_channel(t)
  \/ \E i \in 1..Len(nb_requests) : NB_on_channel_open(i)

SpecNB == InitNodeNB /\ [][NextNB]_vars

\* --------------------------------- CouchDB_DataStore.resolve_association_doc
\* Document identifiers and attribute names. An identifier is a string of one
\* character, so that a single identifier stored as an attribute is iterated
\* (line 412) and searched (line 422) as the code does it with a string.
DocIds == {"a", "b"}
Predicates == {"p", "q"}
Blank == ""

\* The value of an attribute: a list of identifiers, or one identifier.
AttrValues == {[list |-> TRUE, ids |-> <<>>], [list |-> TRUE, ids |-> <<"a">>],
               [list |-> TRUE, ids |-> <<"b">>], [list |-> FALSE, ids |-> <<"b">>]}
\* A document: its attributes (a dict); a data store: its documents.
Docs == UNION {[K -> AttrValues] : K \in SUBSET Predicates}
Stores == [DocIds -> Docs]

\* How a call ends.
Raise(e) == [kind |-> "raise", what |-> e, items |-> <<>>]
Return(res) == [kind |-> "return", what |-> "list", items |-> res]
ReturnNone == [kind |-> "return", what |-> "None", items |-> <<>>]

\* read_doc of a stored document (lines 111-122) and list_objects (65-73).
read_doc(db, object_id) == db[object_id]
list_objects(db) == DOMAIN db

\* A triple [subject_doc, key, object_doc]; the documents by their identifier.
Triple(subject_id, key, object_id) == [s |-> subject_id, p |-> key, o |-> object_id]

\* The list res built by the appends of a loop over a dict; the order of the
\* keys of a dict is not modelled, only what the list holds.
RECURSIVE ListOf(_)
ListOf(S) == IF S = {} THEN <<>>
             ELSE LET x == CHOOSE y \in S : TRUE IN <<x>> \o ListOf(S \ {x})

\* Lines 330-335 and 395-400: `object in subject_doc[key]` for a list,
\* `object == subject_doc[key]` otherwise.
associated(doc, key, object) ==
  IF doc[key].list THEN object \in Range(doc[key].ids) ELSE doc[key].ids = <<object>>

\* Lines 337-340, 379-382, 402-405.
found_or_NotFound(res) == IF Len(res) = 0 THEN Raise("NotFound") ELSE Return(res)

\* Lines 322-340: every subject with any association to object.
any_subject(db, object) ==
  found_or_NotFound(ListOf(
    {Triple(d, key, object) : <<d, key>> \in
       {dk \in (list_objects(db) \ {object}) \X Predicates :
          /\ dk[2] \in DOMAIN read_doc(db, dk[1])
          /\ associated(read_doc(db, dk[1]), dk[2], object)}}))

\* Lines 343-382: the map function emits a document for each element of its
\* attribute that equals object; the query may fail with ResourceNotFound.
subjects_by_query(db, predicate, object, query_fails) ==
  LET queryList == ListOf({d \in DOMAIN db :
                             /\ predicate \in DOMAIN db[d]
                             /\ object \in Range(db[d][predicate].ids)})
  IN IF query_fails THEN Raise("NotFound")
     ELSE IF Len(queryList) = 0 THEN Raise("NotFound")
     ELSE found_or_NotFound([k \in 1..Len(queryList) |->
                               Triple(queryList[k], predicate, object)])

\* Lines 391-405: every association between subject and object.
any_predicate(db, subject, object) ==
  found_or_NotFound(ListOf(
    {Triple(subject, key, object) : key \in
       {k \in DOMAIN read_doc(db, subject) : associated(read_doc(db, subject), k, object)}}))

\* Lines 409-416: every object associated; the list is returned as built.
all_objects(db, subject, predicate) ==
  LET subject_doc == read_doc(db, subject)
  IN IF predicate \in DOMAIN subject_doc
     THEN Return([k \in 1..Len(subject_doc[predicate].ids) |->
                    Triple(subject, predicate, subject_doc[predicate].ids[k])])
     ELSE Raise("NotFound")

\* Lines 419-424: whether the association exists.
one_association(db, subject, predicate, object) ==
  LET subject_doc == read_doc(db, subject)
  IN IF /\ predicate \in DOMAIN subject_doc
        /\ object \in Range(subject_doc[predicate].ids)
     THEN Return(<<Triple(subject, predicate, object)>>)
     ELSE Raise("NotFound")

\* couchdb_datastore.py:310-424
resolve_association_doc(db, subject, predicate, object, query_fails) ==
  IF subject = Blank
  THEN IF predicate = Blank
       THEN IF object = Blank
            THEN Raise("BadRequest")
            ELSE any_subject(db, object)
       ELSE subjects_by_query(db, predicate, object, query_fails)
  ELSE IF predicate = Blank
       THEN IF object = Blank
            THEN ReturnNone                        \* line 388: pass
            ELSE any_predicate(db, subject, object)
       ELSE IF object = Blank
            THEN all_objects(db, subject, predicate)
            ELSE one_association(db, subject, predicate, object)

\* couchdb_datastore.py:294-308: the loop of line 299 over what
\* resolve_association_doc returned; its exceptions pass through.
resolve_association(db, subject, predicate, object, query_fails) ==
  LET res_list == resolve_association_doc(db, subject, predicate, object, query_fails)
  IN IF res_list.kind = "raise" THEN res_list
     ELSE IF res_list = ReturnNone THEN Raise("TypeError")
     ELSE Return(res_list.items)

AssocArgs == [subject : {Blank} \cup DocIds, predicate : {Blank} \cup Predicates,
              object : {Blank} \cup DocIds, query_fails : BOOLEAN]

ResolveAssociationDoc(a) ==
  /\ UNCHANGED outsideAssoc
  /\ assoc.pc = "none"
  /\ assoc' = [pc |-> "done", fn |-> "resolve_association_doc", args |-> a,
               out |-> resolve_association_doc(ds, a.subject, a.predicate, a.object,
                                               a.query_fails)]
  /\ UNCHANGED ds

ResolveAssociation(a) ==
  /\ UNCHANGED outsideAssoc
  /\ assoc.pc = "none"
  /\ assoc' = [pc |-> "done", fn |-> "resolve_association", args |-> a,
               out |-> resolve_association(ds, a.subject, a.predicate, a.object,
                                           a.query_fails)]
  /\ UNCHANGED ds

InitAssoc ==
  /\ InitNode /\ fq = NoQuery /\ NoEvents /\ InitNB
  /\ ds \in Stores
  /\ assoc = NoCall

NextAssoc ==
  \/ \E a \in AssocArgs : ResolveAssociationDoc(a)
  \/ \E a \in AssocArgs : ResolveAssociation(a)

SpecAssoc == InitAssoc /\ [][NextAssoc]_vars

\* ===================================================================== claims

C2_SecondCloseRejected ==
  [][\A f \in Fibers, c \in Chans :
       (c \in Range(bidir_pool) /\ ~Tracked(c) /\ CloseAgain(f, c))
         => /\ last'.res = "release_error"
            /\ chans' = chans
            /\ UNCHANGED <<ids_free, ids_in_use, bidir_pool, pool_map>>]_vars

\* C3: every entry of _pool_map leads to a key of _bidir_pool, under which the
\* channel with that transport number is stored; _pool_map never has more
\* entries than _bidir_pool.
C3_MapsConsistent ==
  /\ \A n \in DOMAIN pool_map :
       /\ pool_map[n] \in DOMAIN bidir_pool
       /\ chans[bidir_pool[pool_map[n]]].num = n
  /\ Cardinality(DOMAIN pool_map) <= Cardinality(DOMAIN bidir_pool)

\* One channel is active and another cached one has just been released.
C3_Witness ==
  /\ last.res = "released"
  /\ Cardinality(DOMAIN pool_map) = 1
  /\ Cardinality(DOMAIN bidir_pool) = 2

\* The cached channels that are not handed out.
InactiveCached == {i \in DOMAIN bidir_pool : i \notin Range(pool_map)}
\* The step in which channel(), called for a poolable kind, holds the lock and
\* is given identifier i by the pool.
PoolableAcquire(i) == i \notin ids_in_use /\ ids_in_use' = ids_in_use \cup {i}

\* C4: reuse on acquire. When channel() is called for a poolable kind while a
\* cached channel is inactive, it returns an inactive cached channel under the
\* identifier it is stored under, records its transport number, and neither
\* calls the create callback nor opens a channel; an identifier of the cache is
\* never bound to another channel.
C4_ReuseOnAcquire ==
  [][/\ \A i \in 1..(last_id + 1) :
          (PoolableAcquire(i) /\ InactiveCached # {}) =>
             /\ i \in InactiveCached
             /\ last' = [res |-> "reused", id |-> i]
             /\ chans[bidir_pool[i]].held = 0
             /\ chans' = [chans EXCEPT ![bidir_pool[i]].held = 1]
             /\ pool_map' = MapPut(pool_map, chans[bidir_pool[i]].num, i)
             /\ bidir_pool' = bidir_pool
             /\ ncreate' = ncreate
     /\ \A j \in DOMAIN bidir_pool \cap DOMAIN bidir_pool' :
          bidir_pool'[j] = bidir_pool[j]]_vars

\* A channel has been handed out by reuse while another one stays cached.
C4_Witness ==
  /\ last.res = "reused"
  /\ Cardinality(DOMAIN bidir_pool) = 2
  /\ chans[bidir_pool[last.id]].held = 1

\* C5: poolability gate. Every channel in _bidir_pool was created for
\* BidirClientChannel with auto-delete off: one created with auto-delete on,
\* or of another kind, is never cached.
C5_PoolabilityGate ==
  \A i \in DOMAIN bidir_pool : chans[bidir_pool[i]].bidir

\* Channels that are not poolable have been created and closed, one of each
\* kind, next to a cached channel.
C5_Witness ==
  /\ DOMAIN bidir_pool # {}
  /\ \E c1 \in Chans, c2 \in Chans :
       /\ ~chans[c1].bidir /\ chans[c1].closed /\ chans[c1].qad
       /\ ~chans[c2].bidir /\ chans[c2].closed /\ ~chans[c2].qad

\* The channels that were pooled and have been taken out of _bidir_pool.
EvictedChans == {c \in Chans : chans[c].bidir /\ HandedOut(c) /\ c \notin Range(bidir_pool)}

\* C6: eviction. When the release of a tracked channel finds its auto-delete
\* flag set, the channel leaves _bidir_pool, its identifier is not in the free
\* set, and the release ends without raising; an evicted channel is never
\* handed out again nor cached again.
C6_EvictionOnAutoDelete ==
  [][/\ \A f \in Fibers :
          (/\ pc[f] = "rel_stop" /\ pc'[f] # "rel_stop"
           /\ Tracked(loc[f].ch) /\ chans[loc[f].ch].qad) =>
             LET c == loc[f].ch
                 chid == pool_map[chans[c].num]
             IN /\ chid \notin DOMAIN bidir_pool'
                /\ c \notin Range(bidir_pool')
                /\ chid \notin ids_free'
                /\ chid \notin ids_in_use'
                /\ chans[c].num \notin DOMAIN pool_map'
                /\ IF loc[f].nested
                   THEN pc'[f] = "chan_create"
                   ELSE last' = [res |-> "evicted", id |-> chid]
     /\ \A c \in EvictedChans :
          /\ chans'[c].held <= chans[c].held
          /\ c \notin Range(bidir_pool')]_vars

\* A channel was evicted, and a later acquisition has taken place.
C6_Witness ==
  /\ EvictedChans # {}
  /\ last.res \in {"reused", "created"}
  /\ \A c \in EvictedChans : chans[c].held = 0

LockInv ==
  /\ (lockDepth = 0) <=> (lockOwner = NoFiber)
  /\ lockDepth \in 0..2
  /\ lockDepth > 0 => pc[lockOwner] \in {"chan_open", "chan_create", "rel_stop"}
  /\ (\A f \in Fibers : pc[f] = "idle") => lockDepth = 0
  /\ lockDepth = 2 <=> (\E f \in Fibers : pc[f] = "rel_stop" /\ loc[f].nested)

Waiting(f) == pc[f] \in {"chan_lock", "rel_lock"}

\* C8: the lock is released on every exit path (when no fiber is inside an
\* acquire or a release it is free), a close made by the fiber that holds it
\* does not block, and a fiber that waits for the lock gets it.
C8_LockDiscipline ==
  /\ []LockInv
  /\ \A f \in Fibers : Waiting(f) ~> ~Waiting(f)

\* A fiber waits while the holder is inside a close it made under the lock.
C8_Witness ==
  /\ lockDepth = 2
  /\ \E f \in Fibers : Waiting(f)

\* C9: allocation returns the smallest released identifier when there is one
\* and a new identifier otherwise; an identifier is never free and allocated
\* at once, and the identifiers of the active channels are allocated.
C9_IdentifierAllocation ==
  /\ [](/\ ids_in_use \cap ids_free = {}
        /\ ids_in_use \cup ids_free \subseteq 1..last_id
        /\ Range(pool_map) \subseteq ids_in_use)
  /\ [][\A i \in 1..(last_id + 1) :
          PoolableAcquire(i) =>
            IF ids_free # {}
            THEN i = MinOf(ids_free) /\ last_id' = last_id
            ELSE i = last_id + 1 /\ last_id' = i]_vars

\* Three identifiers were allocated, the middle one released, and the next
\* acquisition was given the middle one again.
C9_Witness ==
  /\ ids_in_use = {1, 2, 3}
  /\ last = [res |-> "reused", id |-> 2]

\* A filter is supplied when it is not None.
Supplied(v) == v.tag # "None"

\* The routing table of find_events, for a given reading of "supplied".
RoutedBy(Given(_)) ==
  fq.pc = "done" =>
    /\ Len(fq.calls) = 1
    /\ LET a == fq.args
           call == fq.calls[1]
           base == IF Given(a.origin) /\ Given(a.event_type)
                   THEN <<a.origin, a.event_type>>
                   ELSE IF Given(a.origin) THEN <<a.origin>>
                   ELSE IF Given(a.event_type) THEN <<a.event_type>>
                   ELSE <<>>
       IN /\ call.design = "event"
          /\ call.view = (IF Given(a.origin) /\ Given(a.event_type)
                          THEN "by_origintype"
                          ELSE IF Given(a.origin) THEN "by_origin"
                          ELSE IF Given(a.event_type) THEN "by_type"
                          ELSE "by_time")
          /\ call.start_key = (IF Given(a.start_ts) THEN Append(base, a.start_ts)
                               ELSE base)
          /\ call.end_key = (IF Given(a.end_ts) THEN Append(base, a.end_ts)
                             ELSE base)

\* C10 as stated: the view and the keys follow from which of origin,
\* event_type, start_ts and end_ts are supplied (not None).
C10_RoutingBySupplied == RoutedBy(Supplied)

\* C10, amended: the view and the keys follow from which of origin,
\* event_type, start_ts and end_ts have a true value (neither None nor empty).
C10_QueryRouting == RoutedBy(Truthy)

\* find_events was called with start_ts only.
C10_Witness ==
  /\ fq.pc = "done"
  /\ fq.args.origin = PyNone /\ fq.args.event_type = PyNone
  /\ fq.args.start_ts = PyStr("1") /\ fq.args.end_ts = PyNone
  /\ fq.calls[1].view = "by_time"
  /\ fq.calls[1].start_key = <<PyStr("1")>>
  /\ fq.calls[1].end_key = <<>>


\* The keyword arguments find_events passes on when the default limit is
\* applied under condition cond, and the caller's own otherwise.
LimitPassed(cond) ==
  fq.pc = "done" =>
    fq.calls[1].kwargs = (IF cond
                          THEN MapPut(fq.args.kwargs, "limit", KwInt(DefaultLimit))
                          ELSE fq.args.kwargs)

\* C11 as stated: limit 100 is passed exactly when none of origin, event_type,
\* start_ts, end_ts is supplied (not None) and the caller gave no limit; in
\* every other case the caller's keyword arguments are passed unchanged.
C11_LimitWhenNoneSupplied ==
  LimitPassed(/\ ~Supplied(fq.args.origin) /\ ~Supplied(fq.args.event_type)
              /\ ~Supplied(fq.args.start_ts) /\ ~Supplied(fq.args.end_ts)
              /\ "limit" \notin DOMAIN fq.args.kwargs)

\* C11, amended: limit 100 is passed exactly when none of origin, event_type,
\* start_ts, end_ts has a true value and the caller's limit is missing, None
\* or smaller than 1; in every other case the caller's keyword arguments are
\* passed unchanged.
C11_DefaultLimit ==
  LimitPassed(/\ ~Truthy(fq.args.origin) /\ ~Truthy(fq.args.event_type)
              /\ ~Truthy(fq.args.start_ts) /\ ~Truthy(fq.args.end_ts)
              /\ \/ "limit" \notin DOMAIN fq.args.kwargs
                 \/ fq.args.kwargs["limit"].tag = "None"
                 \/ fq.args.kwargs["limit"].n < 1)

\* find_events was called with no filter and a limit of 0, and has passed
\* limit 100.
C11_Witness ==
  /\ fq.pc = "done"
  /\ fq.args.origin = PyNone /\ fq.args.event_type = PyNone
  /\ fq.args.start_ts = PyNone /\ fq.args.end_ts = PyNone
  /\ fq.args.kwargs = [k \in {"limit"} |-> KwInt(0)]
  /\ fq.calls[1].kwargs = [k \in {"limit"} |-> KwInt(DefaultLimit)]


\* C12: publisher topic. publish_event for an event type T and an origin O
\* that are both present sends with routing key "T.O"; when the origin is
\* absent it fails on the precondition and the event is neither published nor
\* persisted.
C12_PublisherTopic ==
  /\ [][\A o \in PubOrigins :
          publish_event(o) =>
            IF py_true(pub.event_type) /\ py_true(o)
            THEN /\ pub'.pc = "publishing"
                 /\ pub'.key = py_str(pub.event_type) \o py_str(o)
            ELSE /\ pub'.pc = "assert_error"
                 /\ sent' = sent /\ repo' = repo]_vars
  /\ [][pub.pc = "publishing" /\ sent' # sent =>
          sent' = Append(sent, [id |-> pub.nevents, key |-> pub.key])]_vars
  /\ [](pub.pc = "assert_error" =>
          /\ \A i \in 1..Len(sent) : sent[i].id # pub.nevents
          /\ \A i \in 1..Len(repo) : repo[i] # pub.nevents)

\* An event of type T was published for origin "X.Y", and the next call, made
\* without a usable origin, failed.
C12_Witness ==
  /\ pub.pc = "assert_error"
  /\ pub.event_type = Text(<<"T">>)
  /\ Len(sent) = 1
  /\ sent[1].key = <<"T", "X", "Y">>

\* C13: subscriber binding. The binding is "<event_type or *>.<origin or #>",
\* "*.#" when both are absent; it is computed by the constructor and is the
\* same ever after.
C13_SubscriberBinding ==
  /\ [](sub.pc = "ready" =>
          sub.binding = (IF py_true(sub.event_type) THEN sub.event_type.w ELSE <<"*">>)
                        \o (IF py_true(sub.origin) THEN sub.origin.w ELSE <<"#">>))
  /\ [][sub.pc = "ready" => sub'.pc = "ready" /\ sub'.binding = sub.binding]_vars

\* A subscriber without filters is bound to "*.#" while events are published.
C13_Witness ==
  /\ sub.pc = "ready"
  /\ sub.event_type = TextNone /\ sub.origin = TextNone
  /\ sub.binding = <<"*", "#">>
  /\ Len(sent) = 2

\* Topic-exchange matching of a routing key against a binding, both in words:
\* "*" stands for exactly one word, "#" for any number of words.
RECURSIVE Matches(_, _)
Matches(pattern, key) ==
  IF pattern = <<>> THEN key = <<>>
  ELSE IF Head(pattern) = "#"
       THEN \/ Matches(Tail(pattern), key)
            \/ key # <<>> /\ Matches(pattern, Tail(key))
  ELSE IF key = <<>> THEN FALSE
  ELSE /\ Head(pattern) = "*" \/ Head(pattern) = Head(key)
       /\ Matches(Tail(pattern), Tail(key))

\* C14: wildcard matching. The routing key of every published event matches
\* the binding of a subscriber that has no origin filter and either the same
\* event type or none, and does not match the binding of a subscriber with
\* another event type.
C14_WildcardMatching ==
  \A i \in 1..Len(sent) :
    (sub.pc = "ready" /\ ~py_true(sub.origin)) =>
       IF ~py_true(sub.event_type) \/ sub.event_type = pub.event_type
       THEN Matches(sub.binding, sent[i].key)
       ELSE ~Matches(sub.binding, sent[i].key)

\* An event with an origin of two words is published while a subscriber is
\* bound to its event type and any origin.
C14_Witness ==
  /\ sub.pc = "ready"
  /\ sub.binding = <<"T", "#">>
  /\ \E i \in 1..Len(sent) : sent[i].key = <<"T", "X", "Y">>

\* C15: publish then persist. An event is put into the repository only in the
\* step that follows its own completed publish, only with a repository
\* configured, and once; an event whose publish failed, or whose process
\* stopped before the put, is not in the repository.
C15_PublishThenPersist ==
  /\ [](/\ \A i \in 1..Len(repo) : \E j \in 1..Len(sent) : sent[j].id = repo[i]
        /\ \A i \in 1..Len(repo), j \in 1..Len(repo) : repo[i] = repo[j] => i = j
        /\ repo # <<>> => pub.event_repo
        /\ pub.pc \in {"publishing", "publish_error", "crashed", "assert_error",
                       "close_error", "bad_request"}
             => \A i \in 1..Len(repo) : repo[i] # pub.nevents)
  /\ [][repo' # repo =>
          /\ pub.pc = "published"
          /\ sent # <<>> /\ sent[Len(sent)].id = pub.nevents
          /\ repo' = Append(repo, pub.nevents)
          /\ sent' = sent]_vars

\* The first event was published and persisted; the process stopped after the
\* publish of the second.
C15_Witness ==
  /\ pub.pc = "crashed"
  /\ Len(sent) = 2
  /\ repo = <<1>>

\* C17: queue-name namespacing. A queue name that is given is used with the
\* system name in front; one that already begins with the system name is used
\* as it is, so namespacing the result again changes nothing; without a queue
\* name there is none.
C17_QueueNamespacing ==
  sub.pc = "ready" =>
    IF sub.queue_name.tag = "None"
    THEN sub.queue = TextNone
    ELSE /\ sub.queue.tag = "str"
         /\ startswith(sub.queue.c, sub.sys_name)
         /\ startswith(sub.queue_name.c, sub.sys_name) => sub.queue = sub.queue_name
         /\ ~startswith(sub.queue_name.c, sub.sys_name) =>
              sub.queue.c = sub.sys_name \o <<".">> \o sub.queue_name.c
         /\ prefixed_queue_name(sub.sys_name, sub.queue) = sub.queue

\* A queue name that begins with the system name, without a dot after it, was
\* given and is used unchanged.
C17_Witness ==
  /\ sub.pc = "ready"
  /\ sub.sys_name = <<"s">>
  /\ sub.queue_name = Chars(<<"s", "y">>)
  /\ sub.queue = Chars(<<"s", "y">>)


\* How often start_channel was called for identifier i.
TimesStarted(i) == Cardinality({k \in 1..Len(nb_requests) : nb_requests[k].id = i})

\* C16: non-blocking node start. NodeNB.channel registers the channel under
\* an identifier that is not in the registry yet and starts it in the call
\* when the node is running; start_node starts the channels registered before;
\* no channel is started twice, none is started before the node runs, and
\* once it runs every registered channel has been started.
C16_NonBlockingStart ==
  /\ [][nb_last_id' # nb_last_id =>
          /\ nb_last_id' \notin DOMAIN nb_channels
          /\ DOMAIN nb_channels' = DOMAIN nb_channels \cup {nb_last_id'}
          /\ \A i \in DOMAIN nb_channels : nb_channels'[i] = nb_channels[i]
          /\ nb_requests' = IF nb_running # 0
                            THEN Append(nb_requests, [id |-> nb_last_id', by |-> "channel"])
                            ELSE nb_requests]_vars
  /\ [](/\ \A i \in DOMAIN nb_channels :
             TimesStarted(i) = (IF nb_running # 0 THEN 1 ELSE 0)
        /\ \A k \in 1..Len(nb_requests) : nb_requests[k].id \in DOMAIN nb_channels)

\* One channel was registered before the node ran and started by start_node,
\* two were registered and started afterwards.
C16_Witness ==
  /\ nb_running = 1
  /\ Len(nb_requests) = 3
  /\ nb_requests[1] = [id |-> 1, by |-> "start_node"]
  /\ nb_requests[3] = [id |-> 3, by |-> "channel"]


\* C18: release of a tracked channel. A close of a channel whose number is in
\* _pool_map goes through the lock and stop_consume; when its auto-delete flag
\* is unset its _pool_map entry is removed, its identifier becomes free,
\* _bidir_pool is unchanged (the channel stays cached under the identifier)
\* and the channel is not closed.
C18_TrackedRelease ==
  [][/\ \A f \in Fibers, c \in Chans :
          (Tracked(c) /\ CloseHeld(f, c)) =>
             /\ pc'[f] \in {"rel_stop", "rel_lock"}
             /\ chans'[c].closed = chans[c].closed
             /\ UNCHANGED <<ids_free, ids_in_use, bidir_pool, pool_map>>
     /\ \A f \in Fibers :
          (/\ pc[f] = "rel_stop" /\ pc'[f] # "rel_stop"
           /\ Tracked(loc[f].ch) /\ ~chans[loc[f].ch].qad) =>
             LET c == loc[f].ch
                 n == chans[c].num
                 chid == pool_map[n]
             IN /\ pool_map' = MapDel(pool_map, n)
                /\ chid \notin ids_free
                /\ ids_free' = ids_free \cup {chid}
                /\ ids_in_use' = ids_in_use \ {chid}
                /\ bidir_pool' = bidir_pool
                /\ bidir_pool[chid] = c
                /\ chans' = chans
                /\ loc[f].nested \/ last' = [res |-> "released", id |-> chid]]_vars

\* The only pooled channel has been released: it is cached, open, and its
\* identifier is free.
C18_Witness ==
  /\ last = [res |-> "released", id |-> 1]
  /\ pool_map = EmptyMap
  /\ ids_free = {1}
  /\ DOMAIN bidir_pool = {1}
  /\ ~chans[bidir_pool[1]].closed

\* C19: release of an untracked channel. A close of a channel whose number is
\* not in _pool_map closes the channel and leaves the identifier pool,
\* _bidir_pool and _pool_map unchanged; such a channel is not a poolable one
\* (a BidirClientChannel with auto-delete off).
C19_UntrackedRelease ==
  [][\A f \in Fibers, c \in Chans :
       (/\ HandedOut(c) /\ ~Tracked(c)
        /\ CloseHeld(f, c) \/ CloseAgain(f, c)) =>
          /\ chans'[c].closed
          /\ last'.res = "closed"
          /\ UNCHANGED <<ids_free, ids_in_use, last_id, bidir_pool, pool_map>>
          /\ ~(chans[c].bidir /\ ~chans[c].qad)]_vars

\* C20: no channel in _bidir_pool has been closed, so a channel handed out by
\* reuse is open.
C20_CachedChannelsOpen ==
  \A i \in DOMAIN bidir_pool : ~chans[bidir_pool[i]].closed


\* C21 as stated: _bidir_pool and _pool_map never have more entries than the
\* largest number of pooled channels that were active at the same time so far.
C21_PoolSizeBound ==
  /\ Cardinality(DOMAIN bidir_pool) <= peak
  /\ Cardinality(DOMAIN pool_map) <= peak

\* C21, amended: _pool_map never has more entries than the largest number of
\* pooled channels that were active at the same time so far, and _bidir_pool
\* never has more than one entry beyond that number (the channel that was
\* being created while the create callback released another one).
C21_PoolSizeWithinOne ==
  /\ Cardinality(DOMAIN bidir_pool) <= peak + 1
  /\ Cardinality(DOMAIN pool_map) <= peak

\* Two channels are cached although only one was ever active at a time: the
\* second was created by a call whose create callback released the first.
C21_Witness ==
  /\ peak = 1
  /\ Cardinality(DOMAIN bidir_pool) = 2
  /\ Cardinality(DOMAIN pool_map) = 1
  /\ last.res = "created"


C23_AssociationOutcomes ==
  (assoc.pc = "done" /\ assoc.fn = "resolve_association_doc") =>
    LET a == assoc.args
        allEmpty == a.subject = Blank /\ a.predicate = Blank /\ a.object = Blank
    IN /\ assoc.out = Raise("BadRequest") <=> allEmpty
       /\ ~allEmpty =>
            \/ assoc.out = Raise("NotFound")
            \/ /\ assoc.out.kind = "return" /\ assoc.out.what = "list"
               /\ assoc.out.items # <<>>


\* No fiber is inside channel() or on_channel_request_close().
Quiescent == \A f \in Fibers : pc[f] = "idle"

\* The first half of C24: the free identifiers are the inactive cached channels.
FreeIsInactiveCached ==
  \A i \in 1..last_id :
    i \in ids_free <=> (i \in DOMAIN bidir_pool /\ i \notin Range(pool_map))

\* C24 as stated: free identifiers are exactly the inactive cached channels.
\* When no acquire and no release is in progress, an identifier is free if and
\* only if it is a key of _bidir_pool and not a value of _pool_map, and every
\* allocated identifier belongs to exactly one active pooled channel.
C24_FreeIsInactive ==
  Quiescent =>
    /\ FreeIsInactiveCached
    /\ \A i \in ids_in_use :
         Cardinality({n \in DOMAIN pool_map : pool_map[n] = i}) = 1

\* C25 as stated: a failed create leaves the pool unchanged. When the create
\* callback or the transport open raises during channel() for a poolable type,
\* the identifier the call took is not left allocated and the two maps are as
\* they were; a call that fails before it ever blocks leaves the allocated and
\* the free identifiers exactly as it found them.
C25_FailedCreateRestoresPool ==
  [][\A f \in Fibers :
       /\ ( /\ pc[f] \in {"chan_create", "chan_open"} /\ pc'[f] = "idle"
            /\ last'.res \in {"create_error", "open_error"}
            /\ Poolable(loc[f].t) )
          => /\ loc[f].chid \notin ids_in_use'
             /\ bidir_pool' = bidir_pool /\ pool_map' = pool_map
       /\ ( /\ pc[f] \in {"idle", "chan_lock"} /\ pc'[f] = "idle"
            /\ ncreate' = ncreate + 1 /\ last'.res = "create_error" )
          => /\ ids_in_use' = ids_in_use /\ ids_free' = ids_free
             /\ bidir_pool' = bidir_pool /\ pool_map' = pool_map]_vars

====
